---- MODULE Spec2Model ----
(***************************************************************************)
(* Model of rtlsdr_fosphor.py: the start-up imports (capability probe),    *)
(* detect_rtlsdr_devices, the construction of the RtlsdrFosphor flowgraph  *)
(* (source, fosphor QT sink, fosphor GLFW sink, standard sinks) and the    *)
(* lifecycle in main() with its signal handler.                            *)
(*                                                                         *)
(* The external libraries are opaque: each call into them either returns   *)
(* or raises, chosen nondeterministically.  A signal is modelled only once *)
(* its handler is installed; the handler runs as a nested frame on top of  *)
(* whatever the main thread was doing (CPython runs handlers between       *)
(* bytecodes of the main thread, also inside a running handler).           *)
(***************************************************************************)
EXTENDS Integers, Sequences, FiniteSets

VARIABLES
    pc,             \* position of the main thread in the script
    detect,         \* args.detect
    use_fosphor,    \* module-level flag use_fosphor
    fosphor_import, \* outcome of "from gnuradio import fosphor"
    imports_ok,     \* all required imports succeeded
    i,              \* loop index of detect_rtlsdr_devices
    devices,        \* list devices of detect_rtlsdr_devices
    probes,         \* history: <<index, outcome>> of every source(args=rtl=i) probe
    tb,             \* lifecycle of the top block
    rtlsdr_source,  \* self.rtlsdr_source
    attempts,       \* history: visualization paths entered, in order
    raised,         \* history: stages whose try block raised
    succeeded,      \* history: visualization paths that ran to completion
    connected,      \* sinks connected to the source in the graph
    layout,         \* widgets added to self.main_layout, top to bottom
    calls,          \* history: start/stop/wait calls on tb, in order
    installed,      \* signals whose handler is sig_handler
    signals,        \* number of signals delivered so far
    hstack,         \* active sig_handler frames, innermost last
    exit_status     \* -1 while the process runs, else its exit status

importVars == <<use_fosphor, fosphor_import, imports_ok>>
enumVars   == <<i, devices, probes>>
vizVars    == <<rtlsdr_source, attempts, raised, succeeded, connected, layout>>
lifeVars   == <<tb, calls, installed, signals, hstack>>
vars == <<pc, detect, importVars, enumVars, vizVars, lifeVars, exit_status>>

\* range(10) in detect_rtlsdr_devices
MaxProbe == 10
\* bound of the model: how many signals the environment delivers
MaxSignals == 2

NotFoundSignature == "Failed to open rtlsdr device"
ProbeOutcomes == {"ok", NotFoundSignature, "usb_claim_interface error"}
Signals == {"SIGINT", "SIGTERM"}

Running == exit_status = -1

\* the main thread executes the statement at p: no handler frame is active
Main(p) == pc = p /\ hstack = <<>> /\ Running

\* sys.exit(status), or an uncaught exception (status 1)
Exit(status) == pc' = "done" /\ exit_status' = status

Init ==
    /\ pc = "import_base"
    /\ detect \in BOOLEAN
    /\ use_fosphor = FALSE
    /\ fosphor_import = "pending"
    /\ imports_ok = FALSE
    /\ i = 0
    /\ devices = <<>>
    /\ probes = <<>>
    /\ tb = "none"
    /\ rtlsdr_source = "none"
    /\ attempts = <<>>
    /\ raised = {}
    /\ succeeded = {}
    /\ connected = {}
    /\ layout = <<>>
    /\ calls = <<>>
    /\ installed = {}
    /\ signals = 0
    /\ hstack = <<>>
    /\ exit_status = -1

----------------------------------------------------------------------------
\* Capability probe (module level)

\* gr, blocks, firdes, window, PyQt5, sip, numpy
ImportBase ==
    /\ Main("import_base")
    /\ \E ok \in BOOLEAN :
         IF ok THEN pc' = "import_fosphor" /\ exit_status' = exit_status
               ELSE Exit(1)
    /\ UNCHANGED <<detect, importVars, enumVars, vizVars, lifeVars>>

\* mutant: the flag is set whether or not the import worked
FosphorFlag_AlwaysTrue(ok) == TRUE

\* value of use_fosphor after the inner try: True only when the import worked
FosphorFlag(ok) == ok

\* try: from gnuradio import fosphor; except: from gnuradio import qtgui
ImportFosphor ==
    /\ Main("import_fosphor")
    /\ \E ok \in BOOLEAN, qtgui_ok \in BOOLEAN :
         /\ fosphor_import' = IF ok THEN "ok" ELSE "failed"
         /\ IF ok \/ qtgui_ok
               THEN /\ use_fosphor' = FosphorFlag(ok)
                    /\ pc' = "import_osmosdr"
                    /\ exit_status' = exit_status
               ELSE /\ use_fosphor' = use_fosphor
                    /\ Exit(1)
    /\ UNCHANGED <<detect, imports_ok, enumVars, vizVars, lifeVars>>

\* try: from osmosdr import source; except: sys.exit(1)
ImportOsmosdr ==
    /\ Main("import_osmosdr")
    /\ \E ok \in BOOLEAN :
         IF ok THEN /\ pc' = "main"
                    /\ imports_ok' = TRUE
                    /\ exit_status' = exit_status
               ELSE /\ Exit(1)
                    /\ imports_ok' = imports_ok
    /\ UNCHANGED <<detect, use_fosphor, fosphor_import, enumVars, vizVars, lifeVars>>

----------------------------------------------------------------------------
\* main(): the --detect branch and detect_rtlsdr_devices

\* mutant: the --detect branch does not leave main()
MainBranch_IgnoreDetect(d) == "init_gui"

\* where main() goes after parse_args
MainBranch(d) == IF d THEN "detect_probe" ELSE "init_gui"

MainArgs ==
    /\ Main("main")
    /\ pc' = MainBranch(detect)
    /\ UNCHANGED <<detect, importVars, enumVars, vizVars, lifeVars, exit_status>>

\* mutant: no exception is recognised as "not found"
IsNotFound_Never(outcome) == FALSE

\* mutant: every exception is taken for "not found"
IsNotFound_Any(outcome) == TRUE

\* "Failed to open rtlsdr device" in str(e)
IsNotFound(outcome) == outcome = NotFoundSignature

\* label of device idx ("RTL-SDR #idx"), represented by its number
DeviceName(idx) == idx

\* one iteration of "for i in range(10)"
DetectProbe ==
    /\ Main("detect_probe")
    /\ i < MaxProbe
    /\ \E o \in ProbeOutcomes :
         /\ probes' = Append(probes, <<i, o>>)
         /\ devices' = IF o = "ok" THEN Append(devices, <<i, DeviceName(i)>>)
                                   ELSE devices
         /\ IF o # "ok" /\ IsNotFound(o)
               THEN pc' = "detect_report" /\ i' = i
               ELSE pc' = "detect_probe" /\ i' = i + 1
    /\ UNCHANGED <<detect, importVars, vizVars, lifeVars, exit_status>>

\* the range is exhausted: return devices
DetectLoopEnd ==
    /\ Main("detect_probe")
    /\ i >= MaxProbe
    /\ pc' = "detect_report"
    /\ UNCHANGED <<detect, importVars, enumVars, vizVars, lifeVars, exit_status>>

\* print the devices found, then sys.exit(0)
DetectReport ==
    /\ Main("detect_report")
    /\ Exit(0)
    /\ UNCHANGED <<detect, importVars, enumVars, vizVars, lifeVars>>

----------------------------------------------------------------------------
\* RtlsdrFosphor.__init__: window, source

\* gr.top_block.__init__, QApplication, main_window, main_layout; an exception
\* here is caught nowhere and ends the process with status 1
InitGui ==
    /\ Main("init_gui")
    /\ \E ok \in BOOLEAN :
         IF ok THEN tb' = "Constructed" /\ pc' = "src_open" /\ exit_status' = exit_status
               ELSE tb' = tb /\ Exit(1)
    /\ UNCHANGED <<detect, importVars, enumVars, vizVars, calls, installed, signals, hstack>>

\* status of sys.exit in the except clause around the source
SourceExceptStatus == 1

\* self.rtlsdr_source = source(args=f"rtl={self.device_index}")
SourceOpen ==
    /\ Main("src_open")
    /\ \E ok \in BOOLEAN :
         IF ok THEN /\ rtlsdr_source' = "open"
                    /\ raised' = raised
                    /\ pc' = "src_config"
                    /\ exit_status' = exit_status
               ELSE /\ rtlsdr_source' = rtlsdr_source
                    /\ raised' = raised \cup {"source"}
                    /\ Exit(SourceExceptStatus)
    /\ UNCHANGED <<detect, importVars, enumVars, attempts, succeeded, connected, layout, lifeVars>>

\* set_sample_rate ... set_bandwidth
SourceConfigure ==
    /\ Main("src_config")
    /\ \E ok \in BOOLEAN :
         IF ok THEN /\ rtlsdr_source' = "configured"
                    /\ raised' = raised
                    /\ pc' = "src_tuner"
                    /\ exit_status' = exit_status
               ELSE /\ rtlsdr_source' = rtlsdr_source
                    /\ raised' = raised \cup {"source"}
                    /\ Exit(SourceExceptStatus)
    /\ UNCHANGED <<detect, importVars, enumVars, attempts, succeeded, connected, layout, lifeVars>>

\* if use_fosphor: setup_fosphor_visualization() else: setup_standard_visualization()
VisualizationBranch(flag) == IF flag THEN "qt_ctor" ELSE "std_import"

\* get_tuner_type in its own try/except-pass (raising or not, nothing changes),
\* then the branch on use_fosphor
TunerType ==
    /\ Main("src_tuner")
    /\ pc' = VisualizationBranch(use_fosphor)
    /\ UNCHANGED <<detect, importVars, enumVars, vizVars, lifeVars, exit_status>>

----------------------------------------------------------------------------
\* setup_fosphor_visualization: QT sink, then GLFW sink

\* mutant: a failed QT sink goes straight to the standard visualization
QtExcept_SkipGlfw == "std_import"

\* the except clause of the QT try block continues with the GLFW try block
QtExcept == "glfw_ctor"

\* the except clause of the GLFW try block calls setup_standard_visualization
GlfwExcept == "std_import"

QtRaise == pc' = QtExcept /\ raised' = raised \cup {"qt"}
GlfwRaise == pc' = GlfwExcept /\ raised' = raised \cup {"glfw"}

\* self.fosphor_sink = fosphor.qt_sink_c()
QtCtor ==
    /\ Main("qt_ctor")
    /\ attempts' = Append(attempts, "qt")
    /\ \E ok \in BOOLEAN :
         IF ok THEN pc' = "qt_range" /\ raised' = raised ELSE QtRaise
    /\ UNCHANGED <<detect, importVars, enumVars, rtlsdr_source, succeeded, connected,
                   layout, lifeVars, exit_status>>

\* self.fosphor_sink.set_frequency_range(...)
QtRange ==
    /\ Main("qt_range")
    /\ \E ok \in BOOLEAN :
         IF ok THEN pc' = "qt_wrap" /\ raised' = raised ELSE QtRaise
    /\ UNCHANGED <<detect, importVars, enumVars, rtlsdr_source, attempts, succeeded,
                   connected, layout, lifeVars, exit_status>>

\* self.fosphor_win = sip.wrapinstance(self.fosphor_sink.qwidget(), QWidget)
QtWrap ==
    /\ Main("qt_wrap")
    /\ \E ok \in BOOLEAN :
         IF ok THEN pc' = "qt_add" /\ raised' = raised ELSE QtRaise
    /\ UNCHANGED <<detect, importVars, enumVars, rtlsdr_source, attempts, succeeded,
                   connected, layout, lifeVars, exit_status>>

\* self.main_layout.addWidget(self.fosphor_win)
QtAddWidget ==
    /\ Main("qt_add")
    /\ \E ok \in BOOLEAN :
         IF ok THEN /\ layout' = Append(layout, "fosphor_win")
                    /\ pc' = "qt_connect"
                    /\ raised' = raised
               ELSE /\ layout' = layout
                    /\ QtRaise
    /\ UNCHANGED <<detect, importVars, enumVars, rtlsdr_source, attempts, succeeded,
                   connected, lifeVars, exit_status>>

\* self.connect(self.rtlsdr_source, self.fosphor_sink)
QtConnect ==
    /\ Main("qt_connect")
    /\ \E ok \in BOOLEAN :
         IF ok THEN /\ connected' = connected \cup {"qt"}
                    /\ succeeded' = succeeded \cup {"qt"}
                    /\ pc' = "show"
                    /\ raised' = raised
               ELSE /\ connected' = connected
                    /\ succeeded' = succeeded
                    /\ QtRaise
    /\ UNCHANGED <<detect, importVars, enumVars, rtlsdr_source, attempts, layout,
                   lifeVars, exit_status>>

\* self.fosphor_sink = fosphor.glfw_sink_c()
GlfwCtor ==
    /\ Main("glfw_ctor")
    /\ attempts' = Append(attempts, "glfw")
    /\ \E ok \in BOOLEAN :
         IF ok THEN pc' = "glfw_range" /\ raised' = raised ELSE GlfwRaise
    /\ UNCHANGED <<detect, importVars, enumVars, rtlsdr_source, succeeded, connected,
                   layout, lifeVars, exit_status>>

\* self.fosphor_sink.set_frequency_range(...)
GlfwRange ==
    /\ Main("glfw_range")
    /\ \E ok \in BOOLEAN :
         IF ok THEN pc' = "glfw_connect" /\ raised' = raised ELSE GlfwRaise
    /\ UNCHANGED <<detect, importVars, enumVars, rtlsdr_source, attempts, succeeded,
                   connected, layout, lifeVars, exit_status>>

\* self.connect(self.rtlsdr_source, self.fosphor_sink); no widget is added
GlfwConnect ==
    /\ Main("glfw_connect")
    /\ \E ok \in BOOLEAN :
         IF ok THEN /\ connected' = connected \cup {"glfw"}
                    /\ succeeded' = succeeded \cup {"glfw"}
                    /\ pc' = "show"
                    /\ raised' = raised
               ELSE /\ connected' = connected
                    /\ succeeded' = succeeded
                    /\ GlfwRaise
    /\ UNCHANGED <<detect, importVars, enumVars, rtlsdr_source, attempts, layout,
                   lifeVars, exit_status>>

----------------------------------------------------------------------------
\* setup_standard_visualization: every exception is fatal

\* status of sys.exit in the except clause of setup_standard_visualization
StdExceptStatus == 1

\* mutant: the except clause reports the error and returns
StdRaise_NoExit ==
    raised' = raised \cup {"std"} /\ pc' = "show" /\ exit_status' = exit_status

StdRaise == raised' = raised \cup {"std"} /\ Exit(StdExceptStatus)
StdAdvance(next) == raised' = raised /\ pc' = next /\ exit_status' = exit_status

\* entry of setup_standard_visualization; from gnuradio import qtgui
StdImport ==
    /\ Main("std_import")
    /\ attempts' = Append(attempts, "std")
    /\ \E ok \in BOOLEAN : IF ok THEN StdAdvance("freq_ctor") ELSE StdRaise
    /\ UNCHANGED <<detect, importVars, enumVars, rtlsdr_source, succeeded, connected,
                   layout, lifeVars>>

\* qtgui.freq_sink_c(...) and its setters
FreqSinkCtor ==
    /\ Main("freq_ctor")
    /\ \E ok \in BOOLEAN : IF ok THEN StdAdvance("waterfall_ctor") ELSE StdRaise
    /\ UNCHANGED <<detect, importVars, enumVars, rtlsdr_source, attempts, succeeded,
                   connected, layout, lifeVars>>

\* qtgui.waterfall_sink_c(...) and its setters
WaterfallSinkCtor ==
    /\ Main("waterfall_ctor")
    /\ \E ok \in BOOLEAN : IF ok THEN StdAdvance("std_wrap") ELSE StdRaise
    /\ UNCHANGED <<detect, importVars, enumVars, rtlsdr_source, attempts, succeeded,
                   connected, layout, lifeVars>>

\* sip.wrapinstance of both sinks' qwidget()
StdWrap ==
    /\ Main("std_wrap")
    /\ \E ok \in BOOLEAN : IF ok THEN StdAdvance("std_add_freq") ELSE StdRaise
    /\ UNCHANGED <<detect, importVars, enumVars, rtlsdr_source, attempts, succeeded,
                   connected, layout, lifeVars>>

\* self.main_layout.addWidget(self._qtgui_freq_sink_win)
StdAddFreq ==
    /\ Main("std_add_freq")
    /\ \E ok \in BOOLEAN :
         IF ok THEN /\ layout' = Append(layout, "_qtgui_freq_sink_win")
                    /\ StdAdvance("std_add_waterfall")
               ELSE /\ layout' = layout
                    /\ StdRaise
    /\ UNCHANGED <<detect, importVars, enumVars, rtlsdr_source, attempts, succeeded,
                   connected, lifeVars>>

\* self.main_layout.addWidget(self._qtgui_waterfall_sink_win)
StdAddWaterfall ==
    /\ Main("std_add_waterfall")
    /\ \E ok \in BOOLEAN :
         IF ok THEN /\ layout' = Append(layout, "_qtgui_waterfall_sink_win")
                    /\ StdAdvance("std_connect_freq")
               ELSE /\ layout' = layout
                    /\ StdRaise
    /\ UNCHANGED <<detect, importVars, enumVars, rtlsdr_source, attempts, succeeded,
                   connected, lifeVars>>

\* self.connect(self.rtlsdr_source, self.qtgui_freq_sink)
StdConnectFreq ==
    /\ Main("std_connect_freq")
    /\ \E ok \in BOOLEAN :
         IF ok THEN /\ connected' = connected \cup {"freq"}
                    /\ StdAdvance("std_connect_waterfall")
               ELSE /\ connected' = connected
                    /\ StdRaise
    /\ UNCHANGED <<detect, importVars, enumVars, rtlsdr_source, attempts, succeeded,
                   layout, lifeVars>>

\* mutant: the waterfall sink is never connected
StdConnectWaterfall_Missing ==
    /\ Main("std_connect_waterfall")
    /\ succeeded' = succeeded \cup {"std"}
    /\ StdAdvance("show")
    /\ UNCHANGED <<detect, importVars, enumVars, rtlsdr_source, attempts, connected,
                   layout, lifeVars>>

\* self.connect(self.rtlsdr_source, self.qtgui_waterfall_sink)
StdConnectWaterfall ==
    /\ Main("std_connect_waterfall")
    /\ \E ok \in BOOLEAN :
         IF ok THEN /\ connected' = connected \cup {"waterfall"}
                    /\ succeeded' = succeeded \cup {"std"}
                    /\ StdAdvance("show")
               ELSE /\ connected' = connected
                    /\ succeeded' = succeeded
                    /\ StdRaise
    /\ UNCHANGED <<detect, importVars, enumVars, rtlsdr_source, attempts, layout, lifeVars>>

\* self.main_window.show(); __init__ returns to main()
Show ==
    /\ Main("show")
    /\ pc' = "install_sigint"
    /\ UNCHANGED <<detect, importVars, enumVars, vizVars, lifeVars, exit_status>>

----------------------------------------------------------------------------
\* main(): signal handlers, start, event loop, sig_handler

Top(h) == h[Len(h)]
SetTop(h, v) == [h EXCEPT ![Len(h)] = v]

\* signal.signal(signal.SIGINT, sig_handler)
InstallSigint ==
    /\ Main("install_sigint")
    /\ installed' = installed \cup {"SIGINT"}
    /\ pc' = "install_sigterm"
    /\ UNCHANGED <<detect, importVars, enumVars, vizVars, tb, calls, signals, hstack,
                   exit_status>>

\* signal.signal(signal.SIGTERM, sig_handler)
InstallSigterm ==
    /\ Main("install_sigterm")
    /\ installed' = installed \cup {"SIGTERM"}
    /\ pc' = "start"
    /\ UNCHANGED <<detect, importVars, enumVars, vizVars, tb, calls, signals, hstack,
                   exit_status>>

\* tb.start()
Start ==
    /\ Main("start")
    /\ calls' = Append(calls, "start")
    /\ tb' = "Running"
    /\ pc' = "exec"
    /\ UNCHANGED <<detect, importVars, enumVars, vizVars, installed, signals, hstack,
                   exit_status>>

\* tb.app.exec_() returns when the window is closed
ExecReturn ==
    /\ Main("exec")
    /\ pc' = "final_handler"
    /\ UNCHANGED <<detect, importVars, enumVars, vizVars, lifeVars, exit_status>>

\* sig_handler() called on the normal-exit path
FinalHandler ==
    /\ Main("final_handler")
    /\ hstack' = <<"stop">>
    /\ pc' = "after_handler"
    /\ UNCHANGED <<detect, importVars, enumVars, vizVars, tb, calls, installed, signals,
                   exit_status>>

\* a signal whose handler is installed arrives: sig_handler starts on top of
\* the running frame, be that main() or another sig_handler
Signal(sig) ==
    /\ Running
    /\ sig \in installed
    /\ signals < MaxSignals
    /\ signals' = signals + 1
    /\ hstack' = Append(hstack, "stop")
    /\ UNCHANGED <<pc, detect, importVars, enumVars, vizVars, tb, calls, installed,
                   exit_status>>

\* sig_handler: tb.stop()
HandlerStop ==
    /\ Running
    /\ hstack # <<>>
    /\ Top(hstack) = "stop"
    /\ calls' = Append(calls, "stop")
    /\ tb' = "Stopped"
    /\ hstack' = SetTop(hstack, "wait")
    /\ UNCHANGED <<pc, detect, importVars, enumVars, vizVars, installed, signals,
                   exit_status>>

\* sig_handler: tb.wait()
HandlerWait ==
    /\ Running
    /\ hstack # <<>>
    /\ Top(hstack) = "wait"
    /\ calls' = Append(calls, "wait")
    /\ hstack' = SetTop(hstack, "exit")
    /\ UNCHANGED <<pc, detect, importVars, enumVars, vizVars, tb, installed, signals,
                   exit_status>>

\* sig_handler: sys.exit(0); SystemExit unwinds every frame
HandlerExit ==
    /\ Running
    /\ hstack # <<>>
    /\ Top(hstack) = "exit"
    /\ hstack' = <<>>
    /\ Exit(0)
    /\ UNCHANGED <<detect, importVars, enumVars, vizVars, tb, calls, installed, signals>>

----------------------------------------------------------------------------
Next ==
    \/ ImportBase \/ ImportFosphor \/ ImportOsmosdr
    \/ MainArgs
    \/ DetectProbe \/ DetectLoopEnd \/ DetectReport
    \/ InitGui \/ SourceOpen \/ SourceConfigure \/ TunerType
    \/ QtCtor \/ QtRange \/ QtWrap \/ QtAddWidget \/ QtConnect
    \/ GlfwCtor \/ GlfwRange \/ GlfwConnect
    \/ StdImport \/ FreqSinkCtor \/ WaterfallSinkCtor \/ StdWrap
    \/ StdAddFreq \/ StdAddWaterfall \/ StdConnectFreq \/ StdConnectWaterfall
    \/ Show
    \/ InstallSigint \/ InstallSigterm \/ Start \/ ExecReturn \/ FinalHandler
    \/ \E sig \in Signals : Signal(sig)
    \/ HandlerStop \/ HandlerWait \/ HandlerExit

Spec == Init /\ [][Next]_vars

----------------------------------------------------------------------------
\* Helpers of the properties

Range(seq) == {seq[k] : k \in DOMAIN seq}
Count(seq, x) == Cardinality({k \in DOMAIN seq : seq[k] = x})
IsPrefix(a, b) == Len(a) <= Len(b) /\ \A k \in DOMAIN a : a[k] = b[k]
Last(seq) == seq[Len(seq)]

\* the widget that wraps each sink; the GLFW sink draws in a window of its own
SurfaceOf(sink) ==
    CASE sink = "qt" -> "fosphor_win"
      [] sink = "freq" -> "_qtgui_freq_sink_win"
      [] sink = "waterfall" -> "_qtgui_waterfall_sink_win"
      [] OTHER -> "glfw_window"

\* the <<index, name>> pairs of the probes that opened, in probe order
RECURSIVE OpenedOf(_)
OpenedOf(ps) ==
    IF ps = <<>> THEN <<>>
    ELSE LET rest == OpenedOf(SubSeq(ps, 1, Len(ps) - 1))
             p == Last(ps)
         IN IF p[2] = "ok" THEN Append(rest, <<p[1], p[1]>>) ELSE rest

----------------------------------------------------------------------------
\* C1: once the pipeline was started, the calls that follow are stop, then
\* wait, each at most once whatever signals arrive, and the process then
\* exits with status 0 having made exactly these two calls.
C1_ShutdownOnce ==
    (calls # <<>> /\ calls[1] = "start") =>
        /\ Count(calls, "stop") <= 1
        /\ Count(calls, "wait") <= 1
        /\ IsPrefix(Tail(calls), <<"stop", "wait">>)
        /\ (~Running => exit_status = 0 /\ Tail(calls) = <<"stop", "wait">>)

\* C2: with the GPU capability, standard visualization is entered only as the
\* third attempt, after the QT and the GLFW attempt both raised; once the QT
\* attempt raised the next attempt is the GLFW one; and no standard attempt
\* is made when a GPU attempt succeeded.
C2_FallbackOrder ==
    /\ ("std" \in Range(attempts) /\ attempts[1] # "std") =>
           /\ attempts = <<"qt", "glfw", "std">>
           /\ {"qt", "glfw"} \subseteq raised
    /\ ("qt" \in raised /\ pc # "glfw_ctor") =>
           /\ Len(attempts) >= 2
           /\ attempts[2] = "glfw"
    /\ (succeeded \cap {"qt", "glfw"} # {}) => "std" \notin Range(attempts)

C2_Witness ==
    /\ use_fosphor
    /\ attempts = <<"qt", "glfw", "std">>
    /\ succeeded = {"std"}
    /\ pc = "start"

\* C3: when the fosphor import failed, neither GPU sink constructor is ever
\* called, the only visualization path entered is the standard one, and a
\* completed construction has exactly the FFT and the waterfall sink connected.
C3_NoGpuWhenUnavailable ==
    fosphor_import = "failed" =>
        /\ ~use_fosphor
        /\ "qt" \notin Range(attempts)
        /\ "glfw" \notin Range(attempts)
        /\ (attempts # <<>> => attempts = <<"std">>)
        /\ (succeeded # {} =>
               succeeded = {"std"} /\ connected = {"freq", "waterfall"})

C3_Witness ==
    /\ fosphor_import = "failed"
    /\ pc = "exec"
    /\ connected = {"freq", "waterfall"}

\* C4: when index k answers "not found" and every index below k opened, the
\* list returned is exactly the indices 0..k-1 in increasing order, index k is
\* the last one probed and the loop is over.
C4_StopAtNotFound ==
    \A n \in DOMAIN probes :
        (/\ probes[n][2] = NotFoundSignature
         /\ \A m \in 1..(n - 1) : probes[m][2] = "ok") =>
            /\ devices = [j \in 1..(n - 1) |-> <<j - 1, j - 1>>]
            /\ probes[n][1] = n - 1
            /\ Len(probes) = n
            /\ pc # "detect_probe"

C4_Witness ==
    /\ pc = "done"
    /\ Len(probes) = 4
    /\ Len(devices) = 3
    /\ probes[4] = <<3, NotFoundSignature>>

\* C5: in --detect mode, once the imports succeeded, no top block and no
\* source of a flowgraph exist, no visualization is attempted, start, stop and
\* wait are never called, and if the process has exited its status is 0.
C5_DetectOnly ==
    (detect /\ imports_ok) =>
        /\ tb = "none"
        /\ rtlsdr_source = "none"
        /\ attempts = <<>>
        /\ connected = {}
        /\ calls = <<>>
        /\ hstack = <<>>
        /\ (~Running => exit_status = 0)

C5_Witness ==
    /\ detect
    /\ exit_status = 0
    /\ devices = <<>>
    /\ Len(probes) = MaxProbe

\* C6: stop is called only after start has been called, and start is never
\* called after a stop.
C6_Lifecycle ==
    \A k \in DOMAIN calls :
        /\ calls[k] = "stop" => \E j \in 1..(k - 1) : calls[j] = "start"
        /\ calls[k] = "start" => \A j \in 1..(k - 1) : calls[j] # "stop"

\* C7: when the source or the standard visualization raised, the process has
\* exited with a non-zero status and start was never called; after a source
\* failure no visualization path was entered.
C7_FatalFailures ==
    /\ "source" \in raised =>
           /\ exit_status > 0
           /\ attempts = <<>>
           /\ "start" \notin Range(calls)
    /\ "std" \in raised =>
           /\ exit_status > 0
           /\ "start" \notin Range(calls)

C7_Witness ==
    /\ raised = {"qt", "glfw", "std"}
    /\ exit_status = 1

\* C8: once start was called, the source is configured and the connected
\* sinks are exactly the QT sink, or exactly the GLFW sink, or exactly the FFT
\* and the waterfall sink, matching the one path that succeeded.
C8_GraphShape ==
    "start" \in Range(calls) =>
        /\ rtlsdr_source = "configured"
        /\ Cardinality(succeeded) = 1
        /\ ("qt" \in succeeded => connected = {"qt"})
        /\ ("glfw" \in succeeded => connected = {"glfw"})
        /\ ("std" \in succeeded => connected = {"freq", "waterfall"})
        /\ ("std" \in Range(attempts) => "std" \in succeeded)

C8_Witness ==
    /\ "start" \in Range(calls)
    /\ connected = {"glfw"}
    /\ raised = {"qt"}

\* C9: once construction has completed, the widgets in the layout are
\* exactly the surfaces of the connected sinks, one widget per sink.
C9_LayoutMatchesSinks ==
    succeeded # {} =>
        /\ Range(layout) = {SurfaceOf(s) : s \in connected}
        /\ Len(layout) = Cardinality(connected)

\* C10: the probes are the indices 0, 1, 2, ... in order, at most 10 of them;
\* nothing is probed after a "not found"; after any other outcome the loop
\* goes on while indices remain; and the list is, at every moment, the indices
\* that opened so far, in order.
C10_Enumerator ==
    /\ Len(probes) <= MaxProbe
    /\ \A n \in DOMAIN probes : probes[n][1] = n - 1
    /\ \A n \in 1..(Len(probes) - 1) : probes[n][2] # NotFoundSignature
    /\ devices = OpenedOf(probes)
    /\ (/\ probes # <<>>
        /\ Last(probes)[2] # NotFoundSignature
        /\ Len(probes) < MaxProbe) => pc = "detect_probe"
    /\ pc = "detect_report" =>
           \/ Len(probes) = MaxProbe
           \/ (probes # <<>> /\ Last(probes)[2] = NotFoundSignature)

C10_Witness ==
    /\ pc = "detect_report"
    /\ Len(probes) = 5
    /\ probes[2][2] = "usb_claim_interface error"
    /\ probes[5][2] = NotFoundSignature
    /\ devices = <<<<0, 0>>, <<2, 2>>, <<3, 3>>>>

====
